---------------------------- MODULE Spec2Model ----------------------------
(***************************************************************************)
(* devscripts/install_deps.py: the dependency-set resolver of main() and   *)
(* the command-line shell around it.                                       *)
(*                                                                         *)
(* A string is a sequence of one-character strings, so that the two        *)
(* regular expressions of the script (the self-reference pattern and the   *)
(* base-name pattern) are computed character by character.                 *)
(***************************************************************************)
EXTENDS Integers, Sequences, FiniteSets, TLC

(***************************************************************************)
(* Bounds of the model.                                                    *)
(***************************************************************************)
\* Specifier occurrences in the manifest (base plus all groups), -i options
\* and -e options on the command line, together.
MaxSize == 3
\* Calls of main() in one process, one after the other, on the same inputs.
MaxRuns == 2
\* MaxSize for the runs that call main() more than once.
MaxAgainSize == 2

(***************************************************************************)
(* Characters and strings.                                                 *)
(***************************************************************************)
\* \w of the re module, over the characters the model uses.
WordChars == {"a", "b", "d", "e", "f", "l", "n", "t", "u", "A", "1", "_"}

\* [\w-]
IsNameChar(c) == c \in WordChars \/ c = "-"

\* str.lower(), one character.
LowerChar(c) == IF c = "A" THEN "a" ELSE c

Lower(s) == [i \in 1..Len(s) |-> LowerChar(s[i])]

\* Length of the longest leading run of [\w-] characters of s.
RECURSIVE RunLen(_, _)
RunLen(s, i) ==
    IF i <= Len(s) /\ IsNameChar(s[i]) THEN RunLen(s, i + 1) ELSE i - 1

\* re.match(r'[\w-]+', t): the match object is None when the run is empty.
MatchesBaseName(t) == RunLen(t, 1) >= 1

\* The base name with .lower() left out.
base_name_cased(t) == SubSeq(t, 1, RunLen(t, 1))

\* re.match(r'[\w-]+', t).group(0).lower()
base_name(t) == Lower(SubSeq(t, 1, RunLen(t, 1)))

\* recursive_pattern.fullmatch(dep), recursive_pattern being
\* name\[(?P<group_name>[\w-]+)\] with the project's name put in literally.
\* The names the model uses hold only [\w-] characters, which the pattern
\* matches as themselves.
IsSelfRef(name, dep) ==
    /\ Len(dep) >= Len(name) + 3
    /\ SubSeq(dep, 1, Len(name)) = name
    /\ dep[Len(name) + 1] = "["
    /\ dep[Len(dep)] = "]"
    /\ \A i \in (Len(name) + 2)..(Len(dep) - 1) : IsNameChar(dep[i])

\* mobj.group('group_name')
group_name(name, dep) == SubSeq(dep, Len(name) + 2, Len(dep) - 1)

(***************************************************************************)
(* The manifest: parse_toml(...)['project'].  A dict is a sequence of      *)
(* <<key, value>> pairs with distinct keys, in insertion order.            *)
(***************************************************************************)
HasKey(d, k) == \E i \in 1..Len(d) : d[i][1] = k

\* d[k], for a key d has.
DictItem(d, k) == d[CHOOSE i \in 1..Len(d) : d[i][1] = k][2]

\* d.get(k, default)
DictGet(d, k, default) == IF HasKey(d, k) THEN DictItem(d, k) ELSE default

default == <<"d", "e", "f", "a", "u", "l", "t">>

\* yield_deps re-entering itself on the list it splices in, to the given depth.
RECURSIVE yield_deps_depth(_, _, _, _)
yield_deps_depth(name, optional_groups, group, depth) ==
    IF group = <<>> THEN <<>>
    ELSE LET dep == Head(group)
             out == IF IsSelfRef(name, dep) /\ depth > 0
                    THEN yield_deps_depth(name, optional_groups,
                             DictGet(optional_groups, group_name(name, dep), <<>>),
                             depth - 1)
                    ELSE <<dep>>
         IN  out \o yield_deps_depth(name, optional_groups, Tail(group), depth)

\* Self-references resolved two levels deep.
yield_deps_deep(name, optional_groups, group) ==
    yield_deps_depth(name, optional_groups, group, 2)

\* yield_deps with the token itself as the default of the lookup: a
\* self-reference to a group that does not exist is passed on.
RECURSIVE yield_deps_dangling(_, _, _)
yield_deps_dangling(name, optional_groups, group) ==
    IF group = <<>> THEN <<>>
    ELSE LET dep == Head(group)
             out == IF IsSelfRef(name, dep)
                    THEN DictGet(optional_groups, group_name(name, dep), <<dep>>)
                    ELSE <<dep>>
         IN  out \o yield_deps_dangling(name, optional_groups, Tail(group))

\* yield_deps(group): a token that fully matches the self-reference pattern
\* yields the raw list of the group it names (nothing when there is no such
\* group); any other token yields itself.
RECURSIVE yield_deps(_, _, _)
yield_deps(name, optional_groups, group) ==
    IF group = <<>> THEN <<>>
    ELSE LET dep == Head(group)
             out == IF IsSelfRef(name, dep)
                    THEN DictGet(optional_groups, group_name(name, dep), <<>>)
                    ELSE <<dep>>
         IN  out \o yield_deps(name, optional_groups, Tail(group))

\* The loop over all groups with "and group_name not in excludes" left out.
RECURSIVE AllGroups_unexcluded(_, _, _, _)
AllGroups_unexcluded(name, optional_groups, items, excludes) ==
    IF items = <<>> THEN <<>>
    ELSE LET k == Head(items)[1]
             g == Head(items)[2]
             out == IF k # default
                    THEN yield_deps(name, optional_groups, g)
                    ELSE <<>>
         IN  out \o AllGroups_unexcluded(name, optional_groups, Tail(items), excludes)

\* for group_name, group in optional_groups.items():
\*     if group_name != 'default' and group_name not in excludes:
\*         targets.extend(yield_deps(group))
RECURSIVE AllGroups(_, _, _, _)
AllGroups(name, optional_groups, items, excludes) ==
    IF items = <<>> THEN <<>>
    ELSE LET k == Head(items)[1]
             g == Head(items)[2]
             out == IF k # default /\ k \notin excludes
                    THEN yield_deps(name, optional_groups, g)
                    ELSE <<>>
         IN  out \o AllGroups(name, optional_groups, Tail(items), excludes)

\* for include in filter(None, map(optional_groups.get, args.include or [])):
\*     targets.extend(yield_deps(include))
\* optional_groups.get gives None for a name that is no key; filter(None, ...)
\* drops None and the empty list alike.
RECURSIVE IncludedGroups(_, _, _)
IncludedGroups(name, optional_groups, include) ==
    IF include = <<>> THEN <<>>
    ELSE LET k == Head(include)
             out == IF HasKey(optional_groups, k) /\ DictItem(optional_groups, k) # <<>>
                    THEN yield_deps(name, optional_groups, DictItem(optional_groups, k))
                    ELSE <<>>
         IN  out \o IncludedGroups(name, optional_groups, Tail(include))

\* The loop of lines 86-93 from position i on, for targets every one of which
\* has a base name: seen and unique_targets are its two accumulators.
RECURSIVE UniqueLoop(_, _, _, _, _)
UniqueLoop(targets, excludes, i, seen, unique_targets) ==
    IF i > Len(targets) THEN unique_targets
    ELSE LET t == targets[i]
         IN  IF base_name(t) \notin excludes /\ t \notin seen
             THEN UniqueLoop(targets, excludes, i + 1, seen \cup {t},
                             Append(unique_targets, t))
             ELSE UniqueLoop(targets, excludes, i + 1, seen, unique_targets)

\* The loop with "and t not in seen" left out.
unique_targets_unseen(targets, excludes) ==
    LET Keep(t) == base_name(t) \notin excludes
    IN  SelectSeq(targets, Keep)

\* seen = set(); unique_targets = []; the loop.
unique_targets(targets, excludes) == UniqueLoop(targets, excludes, 1, {}, <<>>)

\* -a and -o added to the parser itself, not to an exclusive group.
not_exclusive(all, only_optional) == FALSE

\* parser.add_mutually_exclusive_group(): -a and -o together are an error.
mutually_exclusive(all, only_optional) == all /\ only_optional

\* Base appended whatever -o says.
base_targets_always(only_optional, dependencies) == dependencies

\* if not args.only_optional: targets.extend(project_table['dependencies'])
base_targets(only_optional, dependencies) ==
    IF only_optional THEN <<>> ELSE dependencies

\* The warning given for every -o, with -i or without.
warns_on_only_optional(only_optional, include) == only_optional

\* if args.only_optional and not args.include
needs_warning(only_optional, include) == only_optional /\ include = <<>>

\* optional_groups['default'] of line 67 raises KeyError.
default_raises(table, a) ==
    /\ ~a.only_optional
    /\ default \notin a.exclude
    /\ ~HasKey(table.optional_dependencies, default)

\* Lines 63-83 on a manifest and a Namespace: the list targets at line 85,
\* when line 67 does not raise.
assemble(table, a) ==
    LET og == table.optional_dependencies
    IN  base_targets(a.only_optional, table.dependencies)
        \o (IF ~a.only_optional /\ default \notin a.exclude /\ HasKey(og, default)
            THEN yield_deps(table.name, og, DictItem(og, default))
            ELSE <<>>)
        \o (IF a.all THEN AllGroups(table.name, og, og, a.exclude)
            ELSE IncludedGroups(table.name, og, a.include))

\* re.match(r'[\w-]+', t) of line 89 is None for one of the targets, and
\* None.group raises AttributeError.
filter_raises(assembled_targets) ==
    \E i \in 1..Len(assembled_targets) : ~MatchesBaseName(assembled_targets[i])

\* Lines 63-93 on a manifest and a Namespace: an exception, or the resolved
\* list.
outcome(table, a) ==
    IF default_raises(table, a) \/ filter_raises(assemble(table, a))
    THEN [raised |-> TRUE, targets |-> <<>>]
    ELSE [raised |-> FALSE,
          targets |-> unique_targets(assemble(table, a), a.exclude)]

\* A word of a command line or a message, as a string of its own kind.
Word(w) == <<w>>

\* Lines 100-103.
pip_args(user, resolved) ==
    <<Word("python"), Word("-m"), Word("pip"), Word("install"), Word("-U")>>
        \o (IF user THEN <<Word("--user")>> ELSE <<>>)
        \o resolved

\* targets bound to project_table['dependencies'] itself, so that extending
\* targets extends the manifest's list.
dependencies_aliased(table, new_targets) == new_targets

\* targets is a list of its own (targets = [], line 63), so targets.extend
\* leaves project_table['dependencies'] as it was.
dependencies_after(table, new_targets) == table.dependencies

(***************************************************************************)
(* Inputs: the command line and the manifest parse_toml returns.           *)
(***************************************************************************)
ProjectName == <<"n">>
test == <<"t">>
dev == <<"d">>

\* n[g]
Ref(g) == ProjectName \o <<"[">> \o g \o <<"]">>

\* Specifier strings: a plain one, one with the same name in upper case and
\* a version, self-references to the groups test and dev, and one with no
\* leading [\w-] character.
Pool == { <<"a">>, <<"A", ">", "1">>, Ref(test), Ref(dev), <<"[", "a", "]">> }

\* Arguments of -e and of -i.
ExcludeTokens == {default, test, <<"a">>, ProjectName}
IncludeNames == {default, test, dev}

\* Key orders of [project.optional-dependencies]: the three groups in two
\* orders, a manifest with no default group, and one with no dev group (where
\* -i dev and n[d] name a group that does not exist).
GroupOrders == { <<default, test, dev>>, <<default, dev, test>>, <<test, dev>>,
                 <<default, test>> }

\* Exit status of the pip process.
PipStatus == {0, 1}

Slots == {"base", "default", "test", "dev", "include", "exclude"}

SlotOf(k) == IF k = default THEN "default" ELSE IF k = test THEN "test" ELSE "dev"

RECURSIVE Sum(_, _)
Sum(f, S) == IF S = {} THEN 0
             ELSE LET e == CHOOSE e \in S : TRUE IN f[e] + Sum(f, S \ {e})

\* How up to max items are spread over the lists of the input.
Sizes(max) == {n \in [Slots -> 0..max] : Sum(n, Slots) <= max}

Manifest(order, base, contents) ==
    [name |-> ProjectName,
     dependencies |-> base,
     optional_dependencies |->
        [i \in 1..Len(order) |-> <<order[i], contents[order[i]]>>]]

NoArgs == [parsed |-> FALSE]
NoTable == [parsed |-> FALSE]

VARIABLES
    argv,           \* sys.argv, as the options it holds
    pyproject,      \* what parse_toml(read_file(args.input))['project'] gives
    pc,             \* where main() is
    args,           \* the Namespace parse_args returned
    project_table,  \* the manifest main() holds
    targets,        \* the list targets
    stdout,         \* lines printed to sys.stdout
    stderr,         \* messages printed to sys.stderr
    pip_calls,      \* calls of subprocess.call: argument list and exit status
    status,         \* <<>> while main() runs, then <<exit status>>
    sys_imported,   \* main()'s local name sys is bound (the import of line 77)
    assembled,      \* targets as the loop of line 88 found it
    run,            \* calls of main() so far
    previous        \* targets at the end of the call before this one

vars == <<argv, pyproject, pc, args, project_table, targets, stdout, stderr,
          pip_calls, status, sys_imported, assembled, run, previous>>

\* The state main() is called in, on an input of up to max items.
InitOfSize(max) ==
    /\ \E n \in Sizes(max), order \in GroupOrders :
         /\ \A k \in {default, test, dev} :
               (\A i \in 1..Len(order) : order[i] # k) => n[SlotOf(k)] = 0
         /\ \E base \in [1..n["base"] -> Pool],
               gd \in [1..n["default"] -> Pool],
               gt \in [1..n["test"] -> Pool],
               gv \in [1..n["dev"] -> Pool] :
              pyproject = Manifest(order, base,
                                   [k \in {default, test, dev} |->
                                      IF k = default THEN gd
                                      ELSE IF k = test THEN gt ELSE gv])
         /\ \E include \in [1..n["include"] -> IncludeNames],
               exclude \in {E \in SUBSET ExcludeTokens :
                              Cardinality(E) = n["exclude"]},
               all \in BOOLEAN, only_optional \in BOOLEAN,
               print \in BOOLEAN, user \in BOOLEAN :
              \* --user only reaches pip_args: drawn for runs that reach it
              /\ (print \/ (all /\ only_optional)) => ~user
              /\ argv = [exclude |-> exclude, include |-> include, all |-> all,
                      only_optional |-> only_optional, print |-> print,
                      user |-> user]
    /\ pc = "parse_args"
    /\ args = NoArgs
    /\ project_table = NoTable
    /\ targets = <<>>
    /\ stdout = <<>>
    /\ stderr = <<>>
    /\ pip_calls = <<>>
    /\ status = <<>>
    /\ sys_imported = FALSE
    /\ assembled = <<>>
    /\ run = 1
    /\ previous = <<>>

Init == InitOfSize(MaxSize)

(***************************************************************************)
(* main(), one action per step.                                            *)
(***************************************************************************)
\* parse_args(): --all and --only-optional are one mutually exclusive group;
\* argparse reports both together on stderr and leaves with status 2.
ParseArgs ==
    /\ pc = "parse_args"
    /\ IF mutually_exclusive(argv.all, argv.only_optional)
       THEN /\ pc' = "exited"
            /\ stderr' = Append(stderr, Word("usage"))
            /\ status' = <<2>>
            /\ args' = args
       ELSE /\ pc' = "load"
            /\ args' = argv
            /\ UNCHANGED <<stderr, status>>
    /\ UNCHANGED <<argv, pyproject, project_table, targets, stdout, pip_calls,
                   sys_imported, assembled, run, previous>>

\* project_table = parse_toml(read_file(args.input))['project']
LoadManifest ==
    /\ pc = "load"
    /\ project_table' = pyproject
    /\ pc' = "base"
    /\ UNCHANGED <<argv, pyproject, args, targets, stdout, stderr, pip_calls,
                   status, sys_imported, assembled, run, previous>>

\* An exception nothing catches: the traceback goes to stderr, status 1.
Raise(exception) ==
    /\ pc' = "raised"
    /\ stderr' = Append(stderr, Word(exception))
    /\ status' = <<1>>

\* Lines 63-67: targets = []; base, then the default group.
BaseDefault ==
    /\ pc = "base"
    /\ LET og == project_table.optional_dependencies
           withBase == base_targets(args.only_optional,
                                    project_table.dependencies)
       IN  IF ~args.only_optional /\ default \notin args.exclude
           THEN IF HasKey(og, default)
                THEN /\ targets' = withBase \o
                          yield_deps(project_table.name, og, DictItem(og, default))
                     /\ pc' = "groups"
                     /\ UNCHANGED <<stderr, status>>
                ELSE \* optional_groups['default']
                     /\ targets' = withBase
                     /\ Raise("KeyError")
           ELSE /\ targets' = withBase
                /\ pc' = "groups"
                /\ UNCHANGED <<stderr, status>>
    /\ project_table' = [project_table EXCEPT
                           !.dependencies = dependencies_after(project_table, targets')]
    /\ UNCHANGED <<argv, pyproject, args, stdout, pip_calls, sys_imported,
                   assembled, run, previous>>

\* Lines 69-83: every group but default and the excluded ones, or the -i ones.
\* The import of line 77 stands in the branch that warns: sys is a local
\* name of main(), bound only when that branch runs.
SelectGroups ==
    /\ pc = "groups"
    /\ LET og == project_table.optional_dependencies
       IN  IF args.all
           THEN /\ targets' = targets \o
                     AllGroups(project_table.name, og, og, args.exclude)
                /\ UNCHANGED <<stderr, sys_imported>>
           ELSE /\ targets' = targets \o
                     IncludedGroups(project_table.name, og, args.include)
                /\ IF needs_warning(args.only_optional, args.include)
                   THEN /\ sys_imported' = TRUE
                        /\ stderr' = Append(stderr, Word("Warning"))
                   ELSE UNCHANGED <<stderr, sys_imported>>
    /\ project_table' = [project_table EXCEPT
                           !.dependencies = dependencies_after(project_table, targets')]
    /\ pc' = "filter"
    /\ UNCHANGED <<argv, pyproject, args, stdout, pip_calls, status,
                   assembled, run, previous>>

\* Lines 85-93: re.match(...) is None for a target with no leading [\w-]
\* character, and None.group raises.
FilterTargets ==
    /\ pc = "filter"
    /\ assembled' = targets
    /\ IF filter_raises(targets)
       THEN /\ targets' = targets
            /\ Raise("AttributeError")
       ELSE /\ targets' = unique_targets(targets, args.exclude)
            /\ pc' = "output"
            /\ UNCHANGED <<stderr, status>>
    /\ UNCHANGED <<argv, pyproject, args, project_table, stdout, pip_calls,
                   sys_imported, run, previous>>

\* Lines 95-98: one line per target; main() returns None.
PrintTargets ==
    /\ pc = "output"
    /\ args.print
    /\ stdout' = stdout \o targets
    /\ status' = <<0>>
    /\ pc' = "returned"
    /\ UNCHANGED <<argv, pyproject, args, project_table, targets, stderr,
                   pip_calls, sys_imported, assembled, run, previous>>

\* Lines 100-105: return subprocess.call(pip_args).  sys.executable of line
\* 100 reads main()'s local sys, which is unbound unless line 77 ran.
InstallTargets ==
    /\ pc = "output"
    /\ ~args.print
    /\ IF sys_imported
       THEN \E rc \in PipStatus :
               /\ pip_calls' = Append(pip_calls,
                                      [args |-> pip_args(args.user, targets),
                                       returncode |-> rc])
               /\ status' = <<rc>>
               /\ pc' = "returned"
               /\ stderr' = stderr
       ELSE /\ Raise("UnboundLocalError")
            /\ pip_calls' = pip_calls
    /\ UNCHANGED <<argv, pyproject, args, project_table, targets, stdout,
                   sys_imported, assembled, run, previous>>

\* main() is called again with the same sys.argv and the same manifest, its
\* output captured afresh.
CallAgain ==
    /\ pc = "returned"
    /\ run < MaxRuns
    /\ run' = run + 1
    /\ previous' = targets
    /\ pc' = "parse_args"
    /\ args' = NoArgs
    /\ targets' = <<>>
    /\ stdout' = <<>>
    /\ stderr' = <<>>
    /\ pip_calls' = <<>>
    /\ status' = <<>>
    /\ sys_imported' = FALSE
    /\ assembled' = <<>>
    /\ project_table' = NoTable
    /\ UNCHANGED <<argv, pyproject>>

Next ==
    \/ ParseArgs
    \/ LoadManifest
    \/ BaseDefault
    \/ SelectGroups
    \/ FilterTargets
    \/ PrintTargets
    \/ InstallTargets

Spec == Init /\ [][Next]_vars

\* main() called up to MaxRuns times in one process.
NextAgain == Next \/ CallAgain

InitAgain == InitOfSize(MaxAgainSize)

SpecAgain == InitAgain /\ [][NextAgain]_vars

\* main() is sequential code: the statement it stands at is executed.
FairSpec == InitAgain /\ [][Next]_vars /\ WF_vars(Next)

(***************************************************************************)
(* The resolver as the specification states it, said without the loops of  *)
(* the script: what the claims below compare the script's lists to.        *)
(***************************************************************************)
\* The filter of lines 85-93 has run to its end: targets is the resolved list.
Resolved == pc \in {"output", "returned"}

\* targets holds everything the assembling phases appended.
Assembled == pc \in {"filter", "output", "returned"}

Range(s) == {s[i] : i \in 1..Len(s)}

Groups == pyproject.optional_dependencies

\* The longest leading run of word characters and hyphens, lower-cased.
SpecBaseName(s) ==
    LET k == CHOOSE k \in 0..Len(s) :
                /\ \A i \in 1..k : IsNameChar(s[i])
                /\ k = Len(s) \/ ~IsNameChar(s[k + 1])
    IN  Lower(SubSeq(s, 1, k))

\* Group names a self-reference of the model's specifiers can name.
RefTargets == {default, test, dev}

RECURSIVE Flatten(_)
Flatten(ss) == IF ss = <<>> THEN <<>> ELSE Head(ss) \o Flatten(Tail(ss))

\* What one token of a group fed to the expander stands for: the raw list of
\* the group it names, nothing when no such group exists, else itself.
SpecPiece(tok) ==
    IF \E g \in RefTargets : tok = Ref(g)
    THEN LET g == CHOOSE g \in RefTargets : tok = Ref(g)
         IN  IF HasKey(Groups, g) THEN DictItem(Groups, g) ELSE <<>>
    ELSE <<tok>>

\* The one-level expansion of the group named k.
SpecExpansion(k) ==
    LET raw == DictItem(Groups, k)
    IN  Flatten([i \in 1..Len(raw) |-> SpecPiece(raw[i])])

\* The groups of phase 2, in the order they are fed to the expander.
SpecSelected ==
    LET keys == [i \in 1..Len(Groups) |-> Groups[i][1]]
        Wanted(k) == k # default /\ k \notin argv.exclude
        Exists(k) == HasKey(Groups, k)
    IN  IF argv.all THEN SelectSeq(keys, Wanted)
        ELSE SelectSeq(argv.include, Exists)

SpecExpansions(names) ==
    Flatten([i \in 1..Len(names) |-> SpecExpansion(names[i])])

\* Exclusion by base name and first-occurrence de-duplication of seq.
SpecFiltered(seq) ==
    LET K == {i \in 1..Len(seq) :
                /\ SpecBaseName(seq[i]) \notin argv.exclude
                /\ \A j \in 1..(i - 1) : seq[j] # seq[i]}
    IN  [n \in 1..Cardinality(K) |->
           seq[CHOOSE i \in K : Cardinality({j \in K : j <= i}) = n]]

(***************************************************************************)
(* The claims.                                                             *)
(***************************************************************************)

\* C1: the resolved list never holds the same specifier string twice.
C1_NoDuplicates ==
    Resolved =>
        \A i, j \in 1..Len(targets) : i # j => targets[i] # targets[j]

\* C1, its case: -i test -i test appended the test group twice, so the
\* assembled list repeats a specifier, which is in the resolved list.
C1_Witness ==
    /\ Resolved
    /\ argv.include = <<test, test>>
    /\ \E i, j \in 1..Len(assembled) :
          /\ i # j
          /\ assembled[i] = assembled[j]
          /\ assembled[i] \in Range(targets)

\* C2: for every excluded group G, a specifier of the resolved list that
\* occurs in G's sequence is also reachable through base or through a
\* selected group that is not excluded.
C2_ExclusionSoundness ==
    Resolved =>
        LET selected == Range(SpecSelected) \cup
                            (IF argv.only_optional THEN {} ELSE {default})
            open == {h \in selected : HasKey(Groups, h) /\ h \notin argv.exclude}
            others == (IF argv.only_optional THEN {}
                       ELSE Range(pyproject.dependencies))
                      \cup UNION {Range(SpecExpansion(h)) : h \in open}
        IN  \A G \in argv.exclude :
                HasKey(Groups, G) =>
                    \A s \in Range(targets) :
                        s \in Range(DictItem(Groups, G)) => s \in others

\* C3: no resolved specifier has its base name in exclude, and every
\* assembled specifier whose base name is not in exclude is resolved.
C3_ExclusionByBaseName ==
    Resolved =>
        /\ \A s \in Range(targets) : SpecBaseName(s) \notin argv.exclude
        /\ \A s \in Range(assembled) :
              SpecBaseName(s) \notin argv.exclude => s \in Range(targets)

\* C3, its case: something was dropped for its base name (an upper-case
\* spelling of an excluded name, or an unresolved self-reference) and
\* something was kept.
C3_Witness ==
    /\ Resolved
    /\ \E s \in Range(assembled) :
          /\ s \in {<<"A", ">", "1">>, Ref(test), Ref(dev)}
          /\ SpecBaseName(s) \in argv.exclude
    /\ targets # <<>>

SpecFed ==
    (IF argv.only_optional \/ default \in argv.exclude THEN <<>>
     ELSE <<default>>) \o SpecSelected

\* Base as it stands, then the one-level expansions of the groups fed.
SpecAssembly ==
    (IF argv.only_optional THEN <<>> ELSE pyproject.dependencies)
        \o SpecExpansions(SpecFed)

IsRef(tok) == \E g \in RefTargets : tok = Ref(g)

\* The self-reference tokens inside the raw lists that the direct
\* self-references of the groups fed splice in.
NestedRefs ==
    {u \in Pool :
        /\ IsRef(u)
        /\ \E i \in 1..Len(SpecFed) :
              \E tok \in Range(DictItem(Groups, SpecFed[i])) :
                 \E g \in RefTargets :
                    /\ tok = Ref(g)
                    /\ HasKey(Groups, g)
                    /\ u \in Range(DictItem(Groups, g))}

\* C6: what the assembling phases append is base as it stands (a
\* self-reference in base is not expanded), then for each group fed to the
\* expander its tokens in order, a direct self-reference replaced by the raw
\* list of the group it names; a self-reference inside that raw list is
\* appended as a literal token and reaches the resolved list unless its base
\* name is excluded.
C6_OneLevel ==
    /\ pc = "filter" => targets = SpecAssembly
    /\ Resolved =>
          /\ assembled = SpecAssembly
          /\ \A u \in NestedRefs :
                /\ u \in Range(assembled)
                /\ SpecBaseName(u) \notin argv.exclude => u \in Range(targets)

\* C6, its case: a group fed to the expander names a second group, whose
\* raw list names a third one that is not empty: the inner token is
\* resolved as it stands and a specifier of the third group is not.
C6_Witness ==
    /\ Resolved
    /\ \E u \in NestedRefs :
          /\ u \in Range(targets)
          /\ \E h \in RefTargets :
                /\ u = Ref(h)
                /\ HasKey(Groups, h)
                /\ \E s \in Range(DictItem(Groups, h)) : s \notin Range(targets)

\* C7: with --all and --only-optional together the argument layer leaves
\* with a non-zero status, and nothing else happens: the manifest is not
\* read, no target is assembled, nothing is printed, pip is not called.
C7_MutuallyExclusive ==
    (argv.all /\ argv.only_optional) =>
        /\ pc \in {"parse_args", "exited"}
        /\ pc = "exited" => (status # <<>> /\ status # <<0>>)
        /\ project_table = NoTable
        /\ targets = <<>>
        /\ assembled = <<>>
        /\ stdout = <<>>
        /\ pip_calls = <<>>

\* C7, its case: main() has left through the argument layer on a manifest
\* and a request that would have resolved to something.
C7_Witness ==
    /\ pc = "exited"
    /\ argv.all /\ argv.only_optional
    /\ pyproject.dependencies # <<>>
    /\ argv.include # <<>>

\* C8: --only-optional without -i warns on stderr, once, and not on stdout;
\* resolution runs to its end and the resolved list is empty; no other
\* valid request warns.
C8_Advisory ==
    /\ (argv.only_optional /\ argv.include = <<>>) =>
          /\ pc # "raised"
          /\ Assembled => stderr = <<Word("Warning")>>
          /\ Resolved => targets = <<>>
          /\ Word("Warning") \notin Range(stdout)
    /\ ~(argv.only_optional /\ argv.include = <<>>) =>
          Word("Warning") \notin Range(stderr)

\* C8, its case: the warned run has returned, on a manifest with base
\* dependencies and groups that are not empty.
C8_Witness ==
    /\ pc = "returned"
    /\ argv.only_optional /\ argv.include = <<>>
    /\ stderr = <<Word("Warning")>>
    /\ pyproject.dependencies # <<>>
    /\ \E i \in 1..Len(Groups) : Groups[i][2] # <<>>

\* main() has come to an end, by a return or by an exception.
Ended == status # <<>>

\* main() got past the filter of lines 85-93, whatever happened after.
ResolutionCompleted ==
    \/ Resolved
    \/ /\ pc = "raised"
       /\ stderr[Len(stderr)] \notin {Word("KeyError"), Word("AttributeError")}

\* C9: pip is only ever called once resolution has completed.  A run with
\* --print never calls pip, prints the resolved list, one specifier a line
\* in order, and ends with status 0.  A run without --print that completed
\* resolution calls pip exactly once, its arguments ending in the resolved
\* list in order, --user among them exactly when -u was given, prints
\* nothing, and ends with pip's status.
C9_OutputRouting ==
    /\ pip_calls # <<>> => ResolutionCompleted
    /\ ~Ended => stdout = <<>>
    /\ (Ended /\ ResolutionCompleted /\ argv.print) =>
          /\ pip_calls = <<>>
          /\ stdout = targets
          /\ status = <<0>>
    /\ (Ended /\ ResolutionCompleted /\ ~argv.print) =>
          /\ Len(pip_calls) = 1
          /\ LET call == pip_calls[1].args
                 n == Len(call) - Len(targets)
             IN  /\ n >= 0
                 /\ SubSeq(call, n + 1, Len(call)) = targets
                 /\ (Word("--user") \in Range(SubSeq(call, 1, n))) <=> argv.user
                 /\ \A s \in Range(SubSeq(call, 1, n)) : s \notin Pool
          /\ stdout = <<>>
          /\ status = <<pip_calls[1].returncode>>

RemoveAt(s, i) == SubSeq(s, 1, i - 1) \o SubSeq(s, i + 1, Len(s))

\* How resolution ended in this run: by an exception of its own, or with
\* the resolved list.
ResolutionOver == pc \in {"output", "returned", "raised"}

Observed ==
    IF /\ pc = "raised"
       /\ stderr[Len(stderr)] \in {Word("KeyError"), Word("AttributeError")}
    THEN [raised |-> TRUE, targets |-> <<>>]
    ELSE [raised |-> FALSE, targets |-> targets]

\* The -i names that are not groups of the manifest, by position.
UnknownIncludes ==
    {i \in 1..Len(argv.include) : ~HasKey(Groups, argv.include[i])}

\* The self-reference tokens whose group does not exist, by group and
\* position.
DanglingTokens ==
    {gj \in (1..Len(Groups)) \X (1..MaxSize) :
        /\ gj[2] <= Len(Groups[gj[1]][2])
        /\ \E h \in RefTargets :
              /\ Groups[gj[1]][2][gj[2]] = Ref(h)
              /\ ~HasKey(Groups, h)}

\* A group fed to the expander holds a self-reference to the g-th group.
SplicedIn(g) ==
    \E i \in 1..Len(SpecFed) :
        /\ HasKey(Groups, SpecFed[i])
        /\ Ref(Groups[g][1]) \in Range(DictItem(Groups, SpecFed[i]))

WithoutInclude(i) == [argv EXCEPT !.include = RemoveAt(@, i)]

WithoutToken(gj) ==
    [pyproject EXCEPT !.optional_dependencies[gj[1]][2] = RemoveAt(@, gj[2])]

\* C11, as the claim words it: an -i name that is not a group, and a
\* self-reference token whose group does not exist, raise nothing and
\* contribute nothing: resolution ends as it would without the name in
\* include, and as it would without the token in its group.
C11_SilentDegradation ==
    ResolutionOver =>
        /\ Observed = outcome(pyproject, argv)
        /\ \A i \in UnknownIncludes :
              outcome(pyproject, WithoutInclude(i)) = Observed
        /\ \A gj \in DanglingTokens :
              outcome(WithoutToken(gj), argv) = Observed

\* C11, amended: an -i name that is not a group raises nothing and
\* contributes nothing, and so does a self-reference token whose group does
\* not exist, in a group that no group fed to the expander names: where a
\* self-reference splices the token's group in, the token is a literal of
\* the raw list.
C11_SilentDegradationDirect ==
    ResolutionOver =>
        /\ Observed = outcome(pyproject, argv)
        /\ \A i \in UnknownIncludes :
              outcome(pyproject, WithoutInclude(i)) = Observed
        /\ \A gj \in DanglingTokens :
              ~SplicedIn(gj[1]) => outcome(WithoutToken(gj), argv) = Observed

\* C11, its case: a list was resolved on -i with a name that is not a
\* group, through a group that holds a self-reference to no group and is
\* fed to the expander as it stands.
C11_Witness ==
    /\ Resolved
    /\ targets # <<>>
    /\ UnknownIncludes # {}
    /\ \E gj \in DanglingTokens :
          /\ ~SplicedIn(gj[1])
          /\ Groups[gj[1]][1] \in Range(SpecFed)

\* C12: on a manifest with no default group, without --only-optional and
\* without -e default, resolution raises nothing and the default phase
\* contributes nothing: the resolved list is the filtered, de-duplicated
\* concatenation of base and the expansions of the selected groups.
C12_NoDefaultGroup ==
    (~HasKey(Groups, default) /\ ~argv.only_optional
                              /\ default \notin argv.exclude) =>
        /\ ~Observed.raised
        /\ Resolved =>
              targets = SpecFiltered(pyproject.dependencies
                                     \o SpecExpansions(SpecSelected))

\* C13: the exclusion and de-duplication phase raises nothing, whatever the
\* assembled specifiers are, one with no leading run of word characters
\* and hyphens included; and with nothing excluded and no specifier
\* assembled twice, the resolved list is the assembled list.
C13_FilterNeverErrors ==
    /\ Word("AttributeError") \notin Range(stderr)
    /\ (/\ Resolved
        /\ argv.exclude = {}
        /\ \A i, j \in 1..Len(assembled) :
              i # j => assembled[i] # assembled[j])
       => targets = assembled

\* The raw list of the group k, followed by the raw lists of the groups its
\* self-references name, one for each reference.
WithReferenced(k) ==
    LET raw == DictItem(Groups, k)
        Target(tok) ==
            IF \E h \in RefTargets : tok = Ref(h) /\ HasKey(Groups, h)
            THEN DictItem(Groups, CHOOSE h \in RefTargets : tok = Ref(h))
            ELSE <<>>
    IN  raw \o Flatten([j \in 1..Len(raw) |-> Target(raw[j])])

\* The sum, over the groups fed to the expander, of the group's length and
\* the lengths of the groups it references directly.
FedBound == Len(Flatten([i \in 1..Len(SpecFed) |-> WithReferenced(SpecFed[i])]))

\* The number of specifiers assembled, once they are.
AssembledCount == IF pc = "filter" THEN Len(targets) ELSE Len(assembled)

\* C14, as the claim words it: main() comes to an end on every manifest
\* and every valid request, and the number of assembled specifiers is at
\* most the sum over the fed groups of their length plus the lengths of the
\* groups they reference directly.
C14_TerminatesBounded ==
    /\ <>Ended
    /\ [](Assembled => AssembledCount <= FedBound)

\* C14, amended: main() comes to an end on every manifest and every valid
\* request, and the number of assembled specifiers is at most the length
\* of base, when base is visited, plus the sum over the fed groups of their
\* length plus the lengths of the groups they reference directly.
C14_TerminatesBoundedWithBase ==
    /\ <>Ended
    /\ [](Assembled =>
            AssembledCount <=
                (IF argv.only_optional THEN 0 ELSE Len(pyproject.dependencies))
                + FedBound)

\* C14, its case: main() has returned a list on a manifest where two
\* groups fed to the expander reference each other, or one references
\* itself.
C14_Witness ==
    /\ pc = "returned"
    /\ targets # <<>>
    /\ \E g, h \in Range(SpecFed) :
          /\ HasKey(Groups, g) /\ HasKey(Groups, h)
          /\ Ref(h) \in Range(DictItem(Groups, g))
          /\ Ref(g) \in Range(DictItem(Groups, h))

\* The same manifest and the same --all, -i and --only-optional, with E
\* for the -e names.
WithExclude(E) == [argv EXCEPT !.exclude = E]

\* C15: on a manifest with a default group, with E a subset of the -e
\* names of this run, every specifier this run resolved is in the list
\* that resolution gives with E for the -e names: a name added to exclude
\* never brings in a specifier that was not resolved without it.
C15_ExclusionMonotone ==
    (Resolved /\ HasKey(Groups, default)) =>
        /\ Observed = outcome(pyproject, argv)
        /\ \A E \in SUBSET argv.exclude :
              LET fewer == outcome(pyproject, WithExclude(E))
              IN  \A s \in Range(targets) :
                      ~fewer.raised /\ s \in Range(fewer.targets)

=============================================================================
